---- MODULE Spec2Model ----
(***************************************************************************)
(* A model of py-clockify: the transport layer of pyclockify/client.py     *)
(* (ClockifyClient and its call primitive _req) and the mapping layer of   *)
(* pyclockify/dataclasses.py (the duration parser, the enum decoders and   *)
(* the record constructors).                                               *)
(*                                                                         *)
(* Representation of Python and JSON values:                               *)
(*   - a string the code only stores or compares (ids, names, enum tokens) *)
(*     is a TLA+ string;                                                   *)
(*   - a string the code takes apart (a duration, a timestamp) is a        *)
(*     sequence of one-character strings;                                  *)
(*   - JSON null / Python None is the record Null, and a string in a      *)
(*     place that may hold null instead is [str |-> its characters];      *)
(*   - a JSON object is a record (a function from its keys), a JSON array  *)
(*     a sequence;                                                         *)
(*   - a call that may raise returns [ok |-> TRUE, val |-> v] or           *)
(*     [ok |-> FALSE, exc |-> <exception class>, arg |-> <its argument>].  *)
(***************************************************************************)
EXTENDS Integers, Sequences, FiniteSets, TLC

VARIABLES
    pc,       \* client: position of the running operation
    op,       \* client: the operation invoked and its arguments
    sent,     \* client: URLs requested so far by the running invocation
    resp,     \* client: the HTTP response the running _req call received
    reqret,   \* client: what the last _req call returned or raised
    user,     \* client: time_entries' local `user` once resolved
    acc,      \* client: records decoded so far by the list comprehension
    out,      \* client: what the operation returned or raised to the caller
    dur_src,  \* duration parser: how the input string was drawn
    dur_in,   \* duration parser: the argument `estimate`
    dur_out,  \* duration parser: the result of _estimate_to_timedelta
    dec_kind, \* decoders: which decoder or constructor is applied
    dec_in,   \* decoders: its argument
    dec_out   \* decoders: its result

clientVars == <<pc, op, sent, resp, reqret, user, acc, out>>
durVars == <<dur_src, dur_in, dur_out>>
decVars == <<dec_kind, dec_in, dec_out>>
vars == <<pc, op, sent, resp, reqret, user, acc, out,
          dur_src, dur_in, dur_out, dec_kind, dec_in, dec_out>>

(***************************************************************************)
(* Bounds of the model.                                                    *)
(***************************************************************************)
\* Longest string over Alphabet fed to the duration parser exhaustively.
MaxLen == 4
\* Largest component value of the generated well-formed duration strings.
MaxNum == 11
\* Longest JSON array a response carries.
MaxItems == 2

(***************************************************************************)
(* Python values and results.                                              *)
(***************************************************************************)
Null == [null |-> TRUE]
Pending == [pending |-> TRUE]
Ok(v) == [ok |-> TRUE, val |-> v]
Raise(e, a) == [ok |-> FALSE, exc |-> e, arg |-> a]
IsOk(r) == r # Pending /\ r.ok
IsErr(r) == r # Pending /\ ~r.ok

\* Sequencing of statements: the statements F that follow a call use its
\* value; an exception the call raised skips them and propagates.
Bind(r, F(_)) == IF r.ok THEN F(r.val) ELSE r

(***************************************************************************)
(* Strings as sequences of characters.                                     *)
(***************************************************************************)
Digits == <<"0", "1", "2", "3", "4", "5", "6", "7", "8", "9">>
IsDigit(c) == \E i \in 1..10 : Digits[i] = c
DigitVal(c) == (CHOOSE i \in 1..10 : Digits[i] = c) - 1
AllDigits(s) == \A i \in 1..Len(s) : IsDigit(s[i])

RECURSIVE DecVal(_)
\* The value of a non-empty sequence of decimal digits.
DecVal(s) ==
    IF Len(s) = 0 THEN 0
    ELSE 10 * DecVal(SubSeq(s, 1, Len(s) - 1)) + DigitVal(s[Len(s)])

RECURSIVE Str(_)
\* The decimal numeral of a natural number, as the API writes it.
Str(n) ==
    IF n < 10 THEN <<Digits[n + 1]>>
    ELSE Str(n \div 10) \o <<Digits[(n % 10) + 1]>>

\* str.find: the first index at which sep occurs in s, 0 when it does not.
FindFirst(s, sep) ==
    LET hits == {i \in 1..(Len(s) - Len(sep) + 1) :
                    SubSeq(s, i, i + Len(sep) - 1) = sep}
    IN  IF hits = {} THEN 0 ELSE CHOOSE i \in hits : \A j \in hits : i <= j

\* Python's `sep in s`.
Contains(s, sep) == FindFirst(s, sep) # 0

RECURSIVE Split(_, _)
\* str.split(sep): the parts of s between the occurrences of sep, left to
\* right; a string without sep is its own single part.
Split(s, sep) ==
    LET i == FindFirst(s, sep)
    IN  IF i = 0 THEN <<s>>
        ELSE <<SubSeq(s, 1, i - 1)>>
                 \o Split(SubSeq(s, i + Len(sep), Len(s)), sep)

\* A value handed to int(): the int literal 0 of the parser's defaults, or a
\* string.
IntLit(n) == [isint |-> TRUE, n |-> n]
StrVal(s) == [isint |-> FALSE, s |-> s]

\* int(x): an int is itself; a string is an optional sign and one or more
\* decimal digits, anything else raises ValueError.  (int() also strips
\* white space and accepts single underscores between digits; the alphabets
\* of this model hold neither.)
PyInt(x) ==
    IF x.isint THEN Ok(x.n)
    ELSE LET s == x.s
             signed == Len(s) > 0 /\ s[1] \in {"-", "+"}
             body == IF signed THEN SubSeq(s, 2, Len(s)) ELSE s
         IN  IF Len(body) = 0 \/ ~AllDigits(body)
             THEN Raise("ValueError", "invalid literal for int()")
             ELSE IF signed /\ s[1] = "-" THEN Ok(0 - DecVal(body))
             ELSE Ok(DecVal(body))

(***************************************************************************)
(* dataclasses.py: _estimate_to_timedelta.  A timedelta is the record of   *)
(* its total number of seconds (negative for a negative timedelta).        *)
(***************************************************************************)
\* A plausible slip: the seconds argument is dropped.
timedelta_NoSeconds(hours, minutes, seconds) ==
    [seconds |-> 3600 * hours + 60 * minutes]

timedelta(hours, minutes, seconds) ==
    [seconds |-> 3600 * hours + 60 * minutes + seconds]

\* list[i] with a 0-based index i: IndexError past the end.
Index(list, i) ==
    IF i + 1 > Len(list) THEN Raise("IndexError", "list index out of range")
    ELSE Ok(list[i + 1])

\* Unpacking a list into the two targets of a tuple assignment.
Unpack2(parts) ==
    IF Len(parts) # 2 THEN Raise("ValueError", "unpack")
    ELSE Ok(<<StrVal(parts[1]), parts[2]>>)

\* `a, b = e.split(c) if c in e else (0, e)`: the pair the tuple assignment
\* binds.
SplitUnit(e, c) ==
    IF Contains(e, <<c>>) THEN Unpack2(Split(e, <<c>>))
    ELSE Ok(<<IntLit(0), e>>)

\* `e.split("S")[0] if "S" in e else 0`.
SecondsPart(e) ==
    IF Contains(e, <<"S">>) THEN StrVal(Split(e, <<"S">>)[1]) ELSE IntLit(0)

_estimate_to_timedelta(estimate) ==
    Bind(Index(Split(estimate, <<"P", "T">>), 1), LAMBDA e1 :
    Bind(SplitUnit(e1, "H"), LAMBDA h :
    Bind(SplitUnit(h[2], "M"), LAMBDA m :
    Bind(PyInt(h[1]), LAMBDA hours :
    Bind(PyInt(m[1]), LAMBDA minutes :
    Bind(PyInt(SecondsPart(m[2])), LAMBDA seconds :
    Ok(timedelta(hours, minutes, seconds))))))))

(***************************************************************************)
(* The duration grammar of the documentation, stated on its own:           *)
(* PT, then the optional components <h>H, <m>M, <s>S in that order, each a *)
(* non-empty run of decimal digits, and nothing else.                      *)
(***************************************************************************)
\* The length of the longest prefix of s made of digits.
DigitRun(s) ==
    LET ends == {k \in 0..Len(s) : \A i \in 1..k : IsDigit(s[i])}
    IN  CHOOSE k \in ends : \A j \in ends : j <= k

\* s with a leading component <digits>c removed, s itself when it has none.
DropComponent(s, c) ==
    LET k == DigitRun(s)
    IN  IF k > 0 /\ Len(s) > k /\ s[k + 1] = c
        THEN SubSeq(s, k + 2, Len(s))
        ELSE s

ConformsToGrammar(s) ==
    /\ Len(s) >= 2
    /\ s[1] = "P"
    /\ s[2] = "T"
    /\ DropComponent(DropComponent(DropComponent(
           SubSeq(s, 3, Len(s)), "H"), "M"), "S") = <<>>

(***************************************************************************)
(* Inputs of the duration parser.                                          *)
(***************************************************************************)
Alphabet == {"P", "T", "H", "M", "S", "1", "2", "-", "X"}

\* Every string over Alphabet of length at most MaxLen.
RawInputs == UNION {[1..n -> Alphabet] : n \in 0..MaxLen}

\* Malformed strings of the documentation's cases that are longer than MaxLen.
LongInputs ==
    { <<"X", "P", "T", "1", "H">>,
      <<"P", "T", "-", "1", "H">>,
      <<"P", "T", "1", "H", "3", "0", "M", "1", "5", "S", "X", "X">>,
      <<"1", "H", "3", "0", "M">>,
      <<"P", "T", "1", "H", "2", "H">>,
      <<"P", "T", "1", "M", "2", "H">> }

Omitted == 0 - 1
\* The component values of the generated strings: 0..MaxNum and the values
\* of the documentation's examples.
Components == (0..MaxNum) \cup {15, 30, 45}

Component(n, c) == IF n = Omitted THEN <<>> ELSE Str(n) \o <<c>>
\* PT<h>H<m>M<s>S with the omitted components left out.
FormatDuration(h, m, s) ==
    <<"P", "T">> \o Component(h, "H") \o Component(m, "M") \o Component(s, "S")

NoSource == [wf |-> FALSE, h |-> Omitted, m |-> Omitted, s |-> Omitted]

DurIdle ==
    /\ dur_src = NoSource
    /\ dur_in = <<>>
    /\ dur_out = Ok(timedelta(0, 0, 0))

InitDuration ==
    /\ dur_out = Pending
    /\ \/ \E h, m, s \in Components \cup {Omitted} :
            /\ dur_src = [wf |-> TRUE, h |-> h, m |-> m, s |-> s]
            /\ dur_in = FormatDuration(h, m, s)
       \/ /\ dur_src = NoSource
          /\ dur_in \in RawInputs \cup LongInputs

\* A caller applies _estimate_to_timedelta to the string.
ParseDuration ==
    /\ dur_out = Pending
    /\ dur_out' = _estimate_to_timedelta(dur_in)
    /\ UNCHANGED <<dur_src, dur_in>>
    /\ UNCHANGED <<clientVars, decVars>>

(***************************************************************************)
(* datetime.strptime(s, "%Y-%m-%dT%H:%M:%SZ") and datetime arithmetic, as  *)
(* TimeEntry.__init__ uses them.  A datetime is the record of its fields;  *)
(* a timedelta is the record of its total number of seconds.               *)
(***************************************************************************)
DigitRunFrom(s, pos) == DigitRun(SubSeq(s, pos, Len(s)))

\* The fields of the format in order: how many digits the directive takes,
\* the values it accepts, and the literal that follows it (the format is
\* matched ignoring case).
StrptimeFields ==
    << [min |-> 4, max |-> 4, lo |-> 0, hi |-> 9999, sep |-> {"-"}],
       [min |-> 1, max |-> 2, lo |-> 1, hi |-> 12, sep |-> {"-"}],
       [min |-> 1, max |-> 2, lo |-> 1, hi |-> 31, sep |-> {"T", "t"}],
       [min |-> 1, max |-> 2, lo |-> 0, hi |-> 23, sep |-> {":"}],
       [min |-> 1, max |-> 2, lo |-> 0, hi |-> 59, sep |-> {":"}],
       [min |-> 1, max |-> 2, lo |-> 0, hi |-> 61, sep |-> {"Z", "z"}] >>

IsLeap(y) == (y % 4 = 0) /\ ((y % 100 # 0) \/ (y % 400 = 0))
DaysInMonth(y, m) ==
    IF m = 2 THEN (IF IsLeap(y) THEN 29 ELSE 28)
    ELSE IF m \in {4, 6, 9, 11} THEN 30 ELSE 31

RECURSIVE DaysBeforeMonth(_, _)
DaysBeforeMonth(y, m) ==
    IF m = 1 THEN 0 ELSE DaysBeforeMonth(y, m - 1) + DaysInMonth(y, m - 1)

\* date.toordinal: days since 0001-01-01, which is day 1.
ToOrdinal(d) ==
    LET y == d.year - 1
    IN  365 * y + (y \div 4) - (y \div 100) + (y \div 400)
            + DaysBeforeMonth(d.year, d.month) + d.day

RECURSIVE StrptimeScan(_, _, _, _)
StrptimeScan(s, pos, i, vals) ==
    IF i > Len(StrptimeFields)
    THEN IF pos = Len(s) + 1 THEN Ok(vals)
         ELSE Raise("ValueError", "unconverted data remains")
    ELSE LET f == StrptimeFields[i]
             k == DigitRunFrom(s, pos)
             v == DecVal(SubSeq(s, pos, pos + k - 1))
         IN  IF \/ k < f.min \/ k > f.max
                \/ v < f.lo \/ v > f.hi
                \/ pos + k > Len(s)
                \/ s[pos + k] \notin f.sep
             THEN Raise("ValueError", "does not match format")
             ELSE StrptimeScan(s, pos + k + 1, i + 1, Append(vals, v))

\* datetime(...) of the parsed fields: ValueError for a year 0, a day the
\* month has not, a second past 59.
NewDatetime(v) ==
    IF v[1] < 1 \/ v[3] > DaysInMonth(v[1], v[2]) \/ v[6] > 59
    THEN Raise("ValueError", "out of range")
    ELSE Ok([year |-> v[1], month |-> v[2], day |-> v[3],
             hour |-> v[4], minute |-> v[5], second |-> v[6]])

\* datetime.strptime: TypeError for None, ValueError for a string that does
\* not match the format or names no date and time.
strptime(s) ==
    IF s = Null THEN Raise("TypeError", "strptime() argument 1 must be str")
    ELSE Bind(StrptimeScan(s.str, 1, 1, <<>>), LAMBDA v : NewDatetime(v))

\* datetime.__sub__: the difference of two datetimes, a timedelta.
DatetimeSub(a, b) ==
    [seconds |-> 86400 * (ToOrdinal(a) - ToOrdinal(b))
                     + 3600 * (a.hour - b.hour) + 60 * (a.minute - b.minute)
                     + (a.second - b.second)]

\* The truth value of a Python object used as a condition: None is false; a
\* datetime defines neither __bool__ nor __len__, so it is always true.
DatetimeTruthy(d) == d # Null

(***************************************************************************)
(* dataclasses.py: the enum decoders.  A variant is written                *)
(* "<Enum>.<NAME>", which no JSON token of the model equals.               *)
(***************************************************************************)
CannotDecode(data) == Raise("CannotDecodeException", data)

MembershipStatus_from_json(data) ==
    IF data = "PENDING" THEN Ok("MembershipStatus.PENDING")
    ELSE IF data = "ACTIVE" THEN Ok("MembershipStatus.ACTIVE")
    ELSE IF data = "DECLINED" THEN Ok("MembershipStatus.DECLINED")
    ELSE IF data = "INACTIVE" THEN Ok("MembershipStatus.INACTIVE")
    ELSE CannotDecode(data)

UserStatus_from_json(data) ==
    IF data = "ACTIVE" THEN Ok("UserStatus.ACTIVE")
    ELSE IF data = "PENDING_EMAIL_VERIFICATION"
    THEN Ok("UserStatus.PENDING_EMAIL_VERIFICATION")
    ELSE IF data = "DELETED" THEN Ok("UserStatus.DELETED")
    ELSE CannotDecode(data)

EstimateType_from_json(data) ==
    IF data = "AUTO" THEN Ok("EstimateType.AUTO")
    ELSE IF data = "MANUAL" THEN Ok("EstimateType.MANUAL")
    ELSE CannotDecode(data)

\* A plausible slip: an unrecognised token falls back to a default variant.
TaskStatus_from_json_Default(data) ==
    IF data = "DONE" THEN Ok("TaskStatus.DONE") ELSE Ok("TaskStatus.ACTIVE")

TaskStatus_from_json(data) ==
    IF data = "DONE" THEN Ok("TaskStatus.DONE")
    ELSE IF data = "ACTIVE" THEN Ok("TaskStatus.ACTIVE")
    ELSE CannotDecode(data)

\* The variants each Enum class declares.
EnumVariants ==
    [ MembershipStatus |-> {"MembershipStatus.PENDING",
                            "MembershipStatus.ACTIVE",
                            "MembershipStatus.DECLINED",
                            "MembershipStatus.INACTIVE"},
      UserStatus |-> {"UserStatus.ACTIVE",
                      "UserStatus.PENDING_EMAIL_VERIFICATION",
                      "UserStatus.DELETED"},
      EstimateType |-> {"EstimateType.AUTO", "EstimateType.MANUAL"},
      TaskStatus |-> {"TaskStatus.DONE", "TaskStatus.ACTIVE"} ]

(***************************************************************************)
(* dataclasses.py: the record constructors.  Each __init__ reads the keys  *)
(* of its JSON object in the order of its statements; the first statement  *)
(* that raises ends it.  A constructed record is the record of the         *)
(* attributes __init__ assigned.                                           *)
(***************************************************************************)
\* data[k1], data[k2], ... evaluated in order: the first failure, or Ok.
\* Subscripting None raises TypeError, a missing key KeyError.
Subscript(data, keys) ==
    IF data = Null THEN Raise("TypeError", "'NoneType' object is not subscriptable")
    ELSE LET bad == {i \in 1..Len(keys) : keys[i] \notin DOMAIN data}
         IN  IF bad = {} THEN Ok(TRUE)
             ELSE Raise("KeyError",
                        keys[CHOOSE i \in bad : \A j \in bad : i <= j])

\* Decimal(n) of an int n is exact.
Decimal(n) == [decimal |-> n]

\* The truth value of a JSON value used as a condition (`if
\* data_hourly_rate`): null is false, a JSON object with keys is true.
Truthy(v) == v # Null

HourlyRate_init(data) ==
    Bind(Subscript(data, <<"currency", "amount">>), LAMBDA k :
    Ok([currency |-> data.currency, amount |-> Decimal(data.amount)]))

\* `HourlyRate(rate) if rate else None`.
OptionalRate(rate) == IF Truthy(rate) THEN HourlyRate_init(rate) ELSE Ok(Null)

Tag_init(data) ==
    Bind(Subscript(data, <<"id", "name", "workspaceId">>), LAMBDA k :
    Ok([uid |-> data.id, name |-> data.name,
        workspace_id |-> data.workspaceId]))

Client_init(data) ==
    Bind(Subscript(data, <<"id", "name", "workspaceId">>), LAMBDA k :
    Ok([uid |-> data.id, name |-> data.name,
        workspace_id |-> data.workspaceId]))

Membership_init(data) ==
    Bind(Subscript(data, <<"userId", "targetId", "hourlyRate">>), LAMBDA k1 :
    Bind(OptionalRate(data.hourlyRate), LAMBDA hr :
    Bind(Subscript(data, <<"membershipStatus">>), LAMBDA k2 :
    Bind(MembershipStatus_from_json(data.membershipStatus), LAMBDA st :
    Bind(Subscript(data, <<"membershipType">>), LAMBDA k3 :
    Ok([user_id |-> data.userId, target_id |-> data.targetId,
        hourly_rate |-> hr, membership_status |-> st,
        membership_type |-> data.membershipType]))))))

RECURSIVE Memberships(_)
\* [Membership(m) for m in ms]: the records in order, or the first failure.
Memberships(ms) ==
    IF Len(ms) = 0 THEN Ok(<<>>)
    ELSE Bind(Membership_init(Head(ms)), LAMBDA first :
         Bind(Memberships(Tail(ms)), LAMBDA rest :
         Ok(<<first>> \o rest)))

Workspace_init(data) ==
    Bind(Subscript(data, <<"id", "name", "workspaceSettings", "hourlyRate">>),
         LAMBDA k1 :
    Bind(HourlyRate_init(data.hourlyRate), LAMBDA hr :
    Bind(Subscript(data, <<"imageUrl", "memberships">>), LAMBDA k2 :
    Bind(Memberships(data.memberships), LAMBDA ms :
    Ok([uid |-> data.id, name |-> data.name,
        settings |-> data.workspaceSettings, hourly_rate |-> hr,
        image_url |-> data.imageUrl, memberships |-> ms])))))

Estimate_init(data) ==
    Bind(Subscript(data, <<"estimate">>), LAMBDA k1 :
    Bind(_estimate_to_timedelta(data.estimate), LAMBDA est :
    Bind(Subscript(data, <<"type">>), LAMBDA k2 :
    Ok([estimate |-> est, of_type |-> data.type]))))

Task_init(data) ==
    Bind(Subscript(data, <<"id", "assigneeId", "estimate">>), LAMBDA k1 :
    Bind(_estimate_to_timedelta(data.estimate), LAMBDA est :
    Bind(Subscript(data, <<"name", "projectId", "status">>), LAMBDA k2 :
    Bind(TaskStatus_from_json(data.status), LAMBDA st :
    Ok([uid |-> data.id, assignee_id |-> data.assigneeId,
        estimate |-> est, name |-> data.name,
        project_id |-> data.projectId, status |-> st])))))

\* A plausible slip: an end at midnight counts as absent (a datetime.time at
\* midnight was false before Python 3.5).
TimeEntryDuration_MidnightFalse(start, end) ==
    IF end # Null /\ end.hour + end.minute + end.second # 0
    THEN DatetimeSub(end, start)
    ELSE Null

\* `if self.end: self.duration = self.end - self.start` / `else: None`.
TimeEntryDuration(start, end) ==
    IF DatetimeTruthy(end) THEN DatetimeSub(end, start) ELSE Null

\* `except TypeError: self.end = None`; any other exception propagates.
ExceptTypeError(r) == IF ~r.ok /\ r.exc = "TypeError" THEN Ok(Null) ELSE r

\* The try statement: strptime of data["timeInterval"]["end"].
TimeEntryEnd(interval) ==
    ExceptTypeError(
        Bind(Subscript(interval, <<"end">>), LAMBDA k : strptime(interval.end)))

\* (The constructor also prints `data`; the output is not modelled.)
TimeEntry_init(data) ==
    Bind(Subscript(data, <<"billable", "isLocked", "description",
                            "projectId", "tagIds", "taskId", "timeInterval">>),
         LAMBDA k1 :
    Bind(Subscript(data.timeInterval, <<"start">>), LAMBDA k2 :
    Bind(strptime(data.timeInterval.start), LAMBDA start :
    Bind(TimeEntryEnd(data.timeInterval), LAMBDA end :
    Ok([billable |-> data.billable = "true",
        locked |-> data.isLocked = "true",
        description |-> data.description,
        project_id |-> data.projectId,
        tag_ids |-> data.tagIds,
        task_id |-> data.taskId,
        start |-> start,
        end |-> end,
        duration |-> TimeEntryDuration(start, end)])))))

Project_init(data) ==
    Bind(Subscript(data, <<"id", "name", "public", "workspaceId", "archived",
                            "billable", "clientId", "color", "hourlyRate">>),
         LAMBDA k1 :
    Bind(OptionalRate(data.hourlyRate), LAMBDA hr :
    Bind(Subscript(data, <<"memberships">>), LAMBDA k2 :
    Bind(Memberships(data.memberships), LAMBDA ms :
    Bind(Subscript(data, <<"duration">>), LAMBDA k3 :
    Bind(_estimate_to_timedelta(data.duration), LAMBDA dur :
    Bind(Subscript(data, <<"estimate">>), LAMBDA k4 :
    Bind(Estimate_init(data.estimate), LAMBDA est :
    Ok([uid |-> data.id, name |-> data.name,
        public |-> data.public = "true",
        workspace_id |-> data.workspaceId,
        archived |-> data.archived = "true",
        billable |-> data.billable = "true",
        client_id |-> data.clientId, color |-> data.color,
        hourly_rate |-> hr, memberships |-> ms,
        duration |-> dur, estimate |-> est])))))))))

User_init(data) ==
    Bind(Subscript(data, <<"activeWorkspace", "defaultWorkspace", "email",
                            "id", "memberships">>), LAMBDA k1 :
    Bind(Memberships(data.memberships), LAMBDA ms :
    Bind(Subscript(data, <<"profilePicture", "settings", "status">>),
         LAMBDA k2 :
    Bind(UserStatus_from_json(data.status), LAMBDA st :
    Ok([active_workspace_id |-> data.activeWorkspace,
        default_workspace_id |-> data.defaultWorkspace,
        email |-> data.email, uid |-> data.id,
        memberships |-> ms,
        profile_pic |-> data.profilePicture,
        settings |-> data.settings, status |-> st])))))

\* The attributes each dataclass declares.
DeclaredFields ==
    [ HourlyRate |-> {"currency", "amount"},
      Tag |-> {"uid", "name", "workspace_id"},
      Membership |-> {"user_id", "target_id", "hourly_rate",
                      "membership_status", "membership_type"},
      Workspace |-> {"uid", "name", "settings", "hourly_rate", "image_url",
                     "memberships"},
      Estimate |-> {"estimate", "of_type"},
      Client |-> {"uid", "name", "workspace_id"},
      Task |-> {"uid", "assignee_id", "estimate", "name", "project_id",
                "status"},
      TimeEntry |-> {"billable", "locked", "description", "project_id",
                     "tag_ids", "task_id", "start", "end", "duration"},
      Project |-> {"uid", "name", "public", "workspace_id", "client_id",
                   "archived", "billable", "color", "duration", "estimate",
                   "hourly_rate", "memberships"},
      User |-> {"active_workspace_id", "default_workspace_id", "email",
                "uid", "memberships", "name", "profile_pic", "settings",
                "status"} ]

\* The constructor of each record class.
Construct(cls, data) ==
    CASE cls = "HourlyRate" -> HourlyRate_init(data)
      [] cls = "Tag" -> Tag_init(data)
      [] cls = "Membership" -> Membership_init(data)
      [] cls = "Workspace" -> Workspace_init(data)
      [] cls = "Estimate" -> Estimate_init(data)
      [] cls = "Client" -> Client_init(data)
      [] cls = "Task" -> Task_init(data)
      [] cls = "TimeEntry" -> TimeEntry_init(data)
      [] cls = "Project" -> Project_init(data)
      [] cls = "User" -> User_init(data)

(***************************************************************************)
(* JSON values the API answers with, as inputs of the decoders.            *)
(***************************************************************************)
\* The documented tokens of the four enums, and strings that are none.
Tokens ==
    {"PENDING", "ACTIVE", "DECLINED", "INACTIVE",
     "PENDING_EMAIL_VERIFICATION", "DELETED", "AUTO", "MANUAL", "DONE",
     "active", "Active", "ACTIVE ", "", "UNKNOWN"}

DocumentedTokens ==
    [ MembershipStatus |-> {"PENDING", "ACTIVE", "DECLINED", "INACTIVE"},
      UserStatus |-> {"ACTIVE", "PENDING_EMAIL_VERIFICATION", "DELETED"},
      EstimateType |-> {"AUTO", "MANUAL"},
      TaskStatus |-> {"DONE", "ACTIVE"} ]

JStr(chars) == [str |-> chars]

Pad2(n) == IF n < 10 THEN <<"0">> \o Str(n) ELSE Str(n)
Pad4(n) ==
    IF n < 10 THEN <<"0", "0", "0">> \o Str(n)
    ELSE IF n < 100 THEN <<"0", "0">> \o Str(n)
    ELSE IF n < 1000 THEN <<"0">> \o Str(n)
    ELSE Str(n)

\* The timestamp as the API writes it: YYYY-MM-DDTHH:MM:SSZ.
FormatTimestamp(d) ==
    Pad4(d.year) \o <<"-">> \o Pad2(d.month) \o <<"-">> \o Pad2(d.day)
        \o <<"T">> \o Pad2(d.hour) \o <<":">> \o Pad2(d.minute)
        \o <<":">> \o Pad2(d.second) \o <<"Z">>

\* A point in time: its fields, its text, and its distance in seconds from
\* 2020-01-01T00:00:00Z as the calendar gives it.
Stamp(y, mo, d, h, mi, s, epoch) ==
    LET dt == [year |-> y, month |-> mo, day |-> d,
               hour |-> h, minute |-> mi, second |-> s]
    IN  [dt |-> dt, json |-> JStr(FormatTimestamp(dt)), epoch |-> epoch]

TimeTable ==
    { Stamp(2020, 1, 1, 0, 0, 0, 0),
      Stamp(2020, 1, 1, 0, 0, 1, 1),
      Stamp(2020, 1, 1, 8, 30, 0, 30600),
      Stamp(2020, 1, 2, 0, 0, 0, 86400),
      Stamp(2020, 2, 29, 23, 59, 59, 5183999),
      Stamp(2020, 3, 1, 0, 0, 0, 5184000),
      Stamp(2021, 1, 1, 0, 0, 0, 31622400),
      Stamp(2019, 12, 31, 23, 59, 59, 0 - 1) }

ValidTimestamps == {t.json : t \in TimeTable}

\* Strings that are no timestamp of the format.
BadTimestamps ==
    { JStr(<<>>),
      JStr(<<"2", "0", "2", "0", "-", "0", "1", "-", "0", "1">>),
      JStr(<<"2", "0", "2", "0", "-", "0", "2", "-", "3", "0", "T",
             "0", "0", ":", "0", "0", ":", "0", "0", "Z">>),
      JStr(<<"2", "0", "2", "0", "-", "0", "1", "-", "0", "1", "T",
             "0", "0", ":", "0", "0", ":", "6", "0", "Z">>) }

\* Duration strings of the records: well formed, and not.
DurationSamples ==
    { FormatDuration(1, 30, 15), FormatDuration(Omitted, Omitted, 45),
      FormatDuration(2, Omitted, Omitted), <<"P", "T">>,
      <<"1", "H">>, <<"P", "T", "5">>, <<"P", "T", "H">> }

RateJson == [currency |-> "USD", amount |-> 1500]
Rates == {Null, RateJson, [currency |-> "EUR"]}

MembershipJson(status, rate) ==
    [userId |-> "u1", targetId |-> "w1", hourlyRate |-> rate,
     membershipStatus |-> status, membershipType |-> "WORKSPACE"]

MembershipInputs ==
    {MembershipJson(s, r) : s \in Tokens, r \in Rates}
        \cup {[userId |-> "u1", targetId |-> "w1", hourlyRate |-> Null,
               membershipStatus |-> "ACTIVE"]}

MembershipLists ==
    { <<>>,
      <<MembershipJson("ACTIVE", Null)>>,
      <<MembershipJson("PENDING", RateJson), MembershipJson("INACTIVE", Null)>>,
      <<MembershipJson("ACTIVE", Null), MembershipJson("active", Null)>> }

\* Ids and names (non-empty opaque strings).
Ids == {"a1", "b2"}
Names == {"Work", "Home"}

TagInputs ==
    {[id |-> i, name |-> n, workspaceId |-> w] :
        i \in Ids, n \in Names, w \in {"w1", "w2"}}
        \cup {[id |-> "a1", name |-> "Work"], [name |-> "Work"]}

HourlyRateInputs ==
    {[currency |-> c, amount |-> a] : c \in {"USD", "EUR"}, a \in {0, 1500}}
        \cup {[currency |-> "USD"], [amount |-> 0]}

WorkspaceJson(rate, ms) ==
    [id |-> "w1", name |-> "Main",
     workspaceSettings |-> [timeTrackingMode |-> "DEFAULT"],
     hourlyRate |-> rate, imageUrl |-> "", memberships |-> ms]

WorkspaceInputs ==
    {WorkspaceJson(r, ms) : r \in Rates, ms \in MembershipLists}
        \cup {[id |-> "w1", name |-> "Main"]}

EstimateJson(e, t) == [estimate |-> e, type |-> t]
EstimateInputs ==
    {EstimateJson(e, t) : e \in DurationSamples,
                          t \in {"AUTO", "MANUAL", "auto", "UNKNOWN"}}
        \cup {[estimate |-> <<"P", "T", "1", "H">>]}

TaskJson(e, s) ==
    [id |-> "t1", assigneeId |-> "u1", estimate |-> e, name |-> "Design",
     projectId |-> "p1", status |-> s]
TaskInputs ==
    {TaskJson(e, s) : e \in DurationSamples, s \in Tokens}
        \cup {[id |-> "t1", assigneeId |-> "u1"]}

TimeEntryJson(interval) ==
    [billable |-> "true", isLocked |-> "false", description |-> "call",
     projectId |-> "p1", tagIds |-> <<"a1">>, taskId |-> "t1",
     timeInterval |-> interval]
TimeEntryInputs ==
    {TimeEntryJson([start |-> s, end |-> e]) :
        s \in ValidTimestamps \cup BadTimestamps \cup {Null},
        e \in ValidTimestamps \cup BadTimestamps \cup {Null}}
        \cup {TimeEntryJson([start |-> s]) : s \in ValidTimestamps}
        \cup {TimeEntryJson(Null), [billable |-> "true"]}

ProjectJson(rate, ms, d, est) ==
    [id |-> "p1", name |-> "Site", public |-> "true", workspaceId |-> "w1",
     archived |-> "false", billable |-> "true", clientId |-> "c1",
     color |-> "#fff", hourlyRate |-> rate, memberships |-> ms,
     duration |-> d, estimate |-> est]
ProjectInputs ==
    {ProjectJson(r, ms, d, EstimateJson(<<"P", "T", "2", "H">>, t)) :
        r \in Rates, ms \in MembershipLists,
        d \in {FormatDuration(1, 30, 15), <<"1", "H">>},
        t \in {"AUTO", "MANUAL", "UNKNOWN"}}
        \cup {ProjectJson(Null, <<>>, <<"P", "T">>, Null),
              [id |-> "p1", name |-> "Site"]}

UserJson(ms, s) ==
    [activeWorkspace |-> "w1", defaultWorkspace |-> "w1",
     email |-> "a@example.org", id |-> "u1", memberships |-> ms,
     name |-> "Ada", profilePicture |-> "", settings |-> [weekStart |-> "MONDAY"],
     status |-> s]
UserInputs ==
    {UserJson(ms, s) : ms \in MembershipLists, s \in Tokens}
        \cup {[id |-> "u1", email |-> "a@example.org", name |-> "Ada"]}

\* The classes with a constructor, and the arguments each is tried on.
Classes ==
    {"HourlyRate", "Tag", "Membership", "Workspace", "Estimate", "Client",
     "Task", "TimeEntry", "Project", "User"}
Enums == {"MembershipStatus", "UserStatus", "EstimateType", "TaskStatus"}

InputsOf(kind) ==
    CASE kind \in Enums -> Tokens
      [] kind = "HourlyRate" -> HourlyRateInputs
      [] kind = "Tag" -> TagInputs
      [] kind = "Client" -> TagInputs
      [] kind = "Membership" -> MembershipInputs
      [] kind = "Workspace" -> WorkspaceInputs
      [] kind = "Estimate" -> EstimateInputs
      [] kind = "Task" -> TaskInputs
      [] kind = "TimeEntry" -> TimeEntryInputs
      [] kind = "Project" -> ProjectInputs
      [] kind = "User" -> UserInputs

(***************************************************************************)
(* The decoders and constructors applied to one argument each.             *)
(***************************************************************************)
DecIdle ==
    /\ dec_kind = "none"
    /\ dec_in = Null
    /\ dec_out = Ok(Null)

InitDecode ==
    /\ dec_kind \in Enums \cup Classes
    /\ dec_in \in InputsOf(dec_kind)
    /\ dec_out = Pending

Apply(kind, result) ==
    /\ dec_kind = kind
    /\ dec_out = Pending
    /\ dec_out' = result
    /\ UNCHANGED <<dec_kind, dec_in>>
    /\ UNCHANGED <<clientVars, durVars>>

DecodeMembershipStatus ==
    Apply("MembershipStatus", MembershipStatus_from_json(dec_in))
DecodeUserStatus == Apply("UserStatus", UserStatus_from_json(dec_in))
DecodeEstimateType == Apply("EstimateType", EstimateType_from_json(dec_in))
DecodeTaskStatus == Apply("TaskStatus", TaskStatus_from_json(dec_in))
NewHourlyRate == Apply("HourlyRate", HourlyRate_init(dec_in))
NewTag == Apply("Tag", Tag_init(dec_in))
NewClient == Apply("Client", Client_init(dec_in))
NewMembership == Apply("Membership", Membership_init(dec_in))
NewWorkspace == Apply("Workspace", Workspace_init(dec_in))
NewEstimate == Apply("Estimate", Estimate_init(dec_in))
NewTask == Apply("Task", Task_init(dec_in))
NewTimeEntry == Apply("TimeEntry", TimeEntry_init(dec_in))
NewProject == Apply("Project", Project_init(dec_in))
NewUser == Apply("User", User_init(dec_in))

(***************************************************************************)
(* client.py: the call primitive _req.                                     *)
(*                                                                         *)
(* An HTTP response is [status, body]; a body is the text the server sent: *)
(* [parses |-> TRUE, value |-> v] when it is the serialisation of the JSON *)
(* value v, [parses |-> FALSE, raw |-> text] when it is no JSON at all.    *)
(* A JSON value at the top of a body is [kind |-> "array", items |-> seq]  *)
(* or [kind |-> "object", keys |-> its keys in order, obj |-> record].     *)
(***************************************************************************)
BASE_URL == "https://api.clockify.me/api/v1/"

\* urllib.parse.urljoin(BASE_URL, endpoint): BASE_URL ends with "/" and the
\* endpoints of the client are relative paths whose segments are plain ids,
\* so the join is the concatenation.
urljoin(base, endpoint) == base \o endpoint

\* The message of ResponseNotJsonException: the f-string over the path and
\* resp.content, the body's bytes (of plain characters here).
NotJsonMessage(path, raw) ==
    "Could not decode JSON\n " \o path \o " = b'" \o raw \o "'"

\* resp.json(): the parsed value, or the JSONDecodeError that _req catches.
ResponseJson(r) ==
    IF r.body.parses THEN Ok(r.body.value)
    ELSE Raise("JSONDecodeError", r.body.raw)

\* A plausible slip: the body is parsed before the status is looked at.
req_ParseFirst(path, r) ==
    LET parsed == ResponseJson(r)
    IN  IF ~parsed.ok
        THEN Raise("ResponseNotJsonException",
                   NotJsonMessage(path, r.body.raw))
        ELSE IF r.status = 401 THEN Raise("UnauthorizedRequest", "")
        ELSE IF r.status = 403 THEN Raise("ForbiddenRequest", "")
        ELSE IF r.status = 404 THEN Raise("NotFoundException", path)
        ELSE parsed

\* _req after the response arrived: the status checks, then the parse.
req(path, r) ==
    IF r.status = 401 THEN Raise("UnauthorizedRequest", "")
    ELSE IF r.status = 403 THEN Raise("ForbiddenRequest", "")
    ELSE IF r.status = 404 THEN Raise("NotFoundException", path)
    ELSE LET parsed == ResponseJson(r)
         IN  IF parsed.ok THEN parsed
             ELSE Raise("ResponseNotJsonException",
                        NotJsonMessage(path, r.body.raw))

(***************************************************************************)
(* client.py: the public operations.  An argument that may be an id or a   *)
(* record is [cls |-> "str", s |-> id] or [cls |-> <class>, obj |-> record]*)
(* and None is Null.                                                       *)
(***************************************************************************)
StrArg(s) == [cls |-> "str", s |-> s]
ObjArg(cls, obj) == [cls |-> cls, obj |-> obj]

\* `if isinstance(x, C): x = x.uid`.
Resolve(x, cls) == IF x.cls = cls THEN x.obj.uid ELSE x.s

ListOps == {"workspaces", "time_entries", "clients", "tags", "projects", "tasks"}
Operations == ListOps \cup {"user"}

\* The record class each list operation builds its elements with.
ElementClass(name) ==
    CASE name = "workspaces" -> "Workspace"
      [] name = "time_entries" -> "TimeEntry"
      [] name = "clients" -> "Client"
      [] name = "tags" -> "Tag"
      [] name = "projects" -> "Project"
      [] name = "tasks" -> "Task"

\* A plausible slip: the user is looked up whenever no User record is given.
NeedsLookup_UnlessRecord(o, u) ==
    o.name = "time_entries" /\ "obj" \notin DOMAIN u

\* `if user is None: user = self.user()` of time_entries.
NeedsLookup(o, u) == o.name = "time_entries" /\ u = Null

\* The endpoint an operation hands to _req, its arguments resolved.
Endpoint(o, u) ==
    CASE o.name = "workspaces" -> "workspaces"
      [] o.name = "user" -> "user"
      [] o.name = "time_entries" ->
            "workspaces/" \o Resolve(o.workspace, "Workspace") \o "/user/"
                \o Resolve(u, "User") \o "/time-entries"
      [] o.name = "clients" ->
            "workspaces/" \o Resolve(o.workspace, "Workspace") \o "/clients"
      [] o.name = "tags" ->
            "workspaces/" \o Resolve(o.workspace, "Workspace") \o "/tags"
      [] o.name = "projects" ->
            "workspaces/" \o Resolve(o.workspace, "Workspace") \o "/projects"
      [] o.name = "tasks" ->
            "workspaces/" \o Resolve(o.workspace, "Workspace") \o "/projects/"
                \o Resolve(o.project, "Project") \o "/tasks"

\* The endpoint of the _req call the operation is at: self.user()'s while
\* time_entries resolves its user, the operation's own otherwise.
CurrentEndpoint == IF NeedsLookup(op, user) THEN "user" ELSE Endpoint(op, user)

\* A plausible slip: the comprehension's result is built back to front.
Collect_Prepend(records, r) == <<r>> \o records

\* The list a comprehension has built, one more record decoded.
Collect(records, r) == Append(records, r)

\* The elements `for e in data` visits: the items of an array in order, the
\* keys of an object in order.
Elements(value) == IF value.kind = "array" THEN value.items ELSE value.keys

\* C(e) for the element e of data: a key of an object is a str, and
\* subscripting a str with a str raises TypeError.
ConstructElement(cls, value, i) ==
    IF value.kind = "array" THEN Construct(cls, value.items[i])
    ELSE Raise("TypeError", "string indices must be integers")

\* User(data) of ClockifyClient.user: subscripting a list with a str raises
\* TypeError.
ConstructUser(value) ==
    IF value.kind = "object" THEN User_init(value.obj)
    ELSE Raise("TypeError", "list indices must be integers or slices, not str")

(***************************************************************************)
(* What the server may answer.                                             *)
(***************************************************************************)
Statuses == {200, 401, 403, 404, 500}

ArrayBody(items) == [parses |-> TRUE, value |-> [kind |-> "array", items |-> items]]
ObjectBody(keys, obj) ==
    [parses |-> TRUE, value |-> [kind |-> "object", keys |-> keys, obj |-> obj]]
TextBody(raw) == [parses |-> FALSE, raw |-> raw]

\* The object the service answers an error with.
ErrorBody ==
    ObjectBody(<<"message", "code">>, [message |-> "Internal error", code |-> 500])

\* Every sequence over S of length at most MaxItems.
SeqsUpTo(S) == UNION {[1..n -> S] : n \in 0..MaxItems}

\* The elements the arrays of each endpoint are made of: two that decode
\* and one that does not.
ElementsOf(cls) ==
    CASE cls = "Tag" ->
            {[id |-> "a1", name |-> "Work", workspaceId |-> "w1"],
             [id |-> "b2", name |-> "Home", workspaceId |-> "w1"],
             [id |-> "c3", name |-> "Lost"]}
      [] cls = "Client" ->
            {[id |-> "a1", name |-> "Acme", workspaceId |-> "w1"],
             [id |-> "b2", name |-> "Initech", workspaceId |-> "w1"],
             [id |-> "c3", name |-> "Lost"]}
      [] cls = "Workspace" ->
            {WorkspaceJson(RateJson, <<MembershipJson("ACTIVE", Null)>>),
             WorkspaceJson(RateJson, <<>>),
             WorkspaceJson(RateJson, <<MembershipJson("active", Null)>>)}
      [] cls = "Project" ->
            {ProjectJson(Null, <<>>, FormatDuration(1, 30, 15),
                         EstimateJson(<<"P", "T", "2", "H">>, "AUTO")),
             ProjectJson(RateJson, <<MembershipJson("ACTIVE", Null)>>,
                         <<"P", "T">>,
                         EstimateJson(<<"P", "T", "2", "H">>, "UNKNOWN")),
             ProjectJson(Null, <<>>, <<"1", "H">>,
                         EstimateJson(<<"P", "T", "2", "H">>, "MANUAL"))}
      [] cls = "Task" ->
            {TaskJson(FormatDuration(Omitted, Omitted, 45), "DONE"),
             TaskJson(FormatDuration(2, Omitted, Omitted), "ACTIVE"),
             TaskJson(FormatDuration(2, Omitted, Omitted), "active")}
      [] cls = "TimeEntry" ->
            {TimeEntryJson([start |-> Stamp(2020, 1, 1, 0, 0, 0, 0).json,
                            end |-> Stamp(2020, 1, 1, 8, 30, 0, 30600).json]),
             TimeEntryJson([start |-> Stamp(2020, 1, 2, 0, 0, 0, 86400).json,
                            end |-> Null]),
             TimeEntryJson([start |-> JStr(<<>>), end |-> Null])}

UserKeys ==
    <<"id", "email", "name", "memberships", "profilePicture",
      "activeWorkspace", "defaultWorkspace", "settings", "status">>

\* Bodies the server may send for the endpoint of a list operation.
ListBodies(cls) ==
    {ArrayBody(items) : items \in SeqsUpTo(ElementsOf(cls))}
        \cup {TextBody("<html>"), TextBody(""), ErrorBody}

\* Bodies the server may send for the user endpoint.
UserBodies ==
    {ObjectBody(UserKeys, UserJson(ms, s)) :
        ms \in {<<>>, <<MembershipJson("ACTIVE", Null)>>},
        s \in {"ACTIVE", "UNKNOWN"}}
        \cup {TextBody("<html>"), ErrorBody, ArrayBody(<<>>)}

(***************************************************************************)
(* The client's operations, step by step.                                  *)
(***************************************************************************)
WorkspaceRecord == Workspace_init(WorkspaceJson(RateJson, <<>>)).val
ProjectRecord ==
    Project_init(ProjectJson(Null, <<>>, <<"P", "T">>,
                             EstimateJson(<<"P", "T">>, "AUTO"))).val
UserRecord == User_init(UserJson(<<>>, "ACTIVE")).val

\* The arguments a caller passes: an id, or a record decoded earlier.
WorkspaceArgs == {StrArg("w1"), StrArg("w2"), ObjArg("Workspace", WorkspaceRecord)}
ProjectArgs == {StrArg("p1"), ObjArg("Project", ProjectRecord)}
UserArgs == {Null, StrArg("u1"), ObjArg("User", UserRecord)}

ClientIdle ==
    /\ pc = "off"
    /\ op = Null
    /\ sent = <<>>
    /\ resp = Null
    /\ reqret = Pending
    /\ user = Null
    /\ acc = <<>>
    /\ out = Pending

\* ClockifyClient(api_key): the client holds its key and nothing else.
InitClient ==
    /\ pc = "ready"
    /\ op = Null
    /\ sent = <<>>
    /\ resp = Null
    /\ reqret = Pending
    /\ user = Null
    /\ acc = <<>>
    /\ out = Pending

\* The caller invokes an operation (the previous one has ended).
Invoke(name, workspace, project, u) ==
    /\ pc \in {"ready", "done"}
    /\ op' = [name |-> name, workspace |-> workspace, project |-> project,
              user |-> u]
    /\ user' = u
    /\ sent' = <<>>
    /\ resp' = Null
    /\ reqret' = Pending
    /\ acc' = <<>>
    /\ out' = Pending
    /\ pc' = "send"
    /\ UNCHANGED <<durVars, decVars>>

CallWorkspaces == Invoke("workspaces", Null, Null, Null)
CallUser == Invoke("user", Null, Null, Null)
CallTimeEntries ==
    \E w \in WorkspaceArgs, u \in UserArgs : Invoke("time_entries", w, Null, u)
CallClients == \E w \in WorkspaceArgs : Invoke("clients", w, Null, Null)
CallTags == \E w \in WorkspaceArgs : Invoke("tags", w, Null, Null)
CallProjects == \E w \in WorkspaceArgs : Invoke("projects", w, Null, Null)
CallTasks ==
    \E w \in WorkspaceArgs, p \in ProjectArgs : Invoke("tasks", w, p, Null)

\* _req builds the URL and issues the GET (no operation passes post_data).
Send ==
    /\ pc = "send"
    /\ sent' = Append(sent, urljoin(BASE_URL, CurrentEndpoint))
    /\ resp' = Null
    /\ reqret' = Pending
    /\ pc' = "wait"
    /\ UNCHANGED <<op, user, acc, out>>
    /\ UNCHANGED <<durVars, decVars>>

\* The server answers the request the client is blocked on.
Respond ==
    /\ pc = "wait"
    /\ \E status \in Statuses,
          body \in (IF CurrentEndpoint = "user" THEN UserBodies
                    ELSE ListBodies(ElementClass(op.name))) :
            resp' = [status |-> status, body |-> body]
    /\ pc' = "classify"
    /\ UNCHANGED <<op, sent, reqret, user, acc, out>>
    /\ UNCHANGED <<durVars, decVars>>

\* A plausible slip: a response that is not JSON is requested once more.
Classify_Retry ==
    /\ pc = "classify"
    /\ LET r == req(sent[Len(sent)], resp)
       IN  /\ reqret' = r
           /\ IF r.ok THEN pc' = "decode" /\ out' = out
              ELSE IF r.exc = "ResponseNotJsonException" /\ Len(sent) < 3
              THEN pc' = "send" /\ out' = out
              ELSE pc' = "done" /\ out' = r
    /\ UNCHANGED <<op, sent, resp, user, acc>>
    /\ UNCHANGED <<durVars, decVars>>

\* _req classifies the response; what it raises leaves the operation.
Classify ==
    /\ pc = "classify"
    /\ LET r == req(sent[Len(sent)], resp)
       IN  /\ reqret' = r
           /\ IF r.ok THEN pc' = "decode" /\ out' = out
              ELSE pc' = "done" /\ out' = r
    /\ UNCHANGED <<op, sent, resp, user, acc>>
    /\ UNCHANGED <<durVars, decVars>>

\* `user = self.user()` given what self.user() returned or raised.
BindUser(r) ==
    IF r.ok THEN user' = ObjArg("User", r.val) /\ pc' = "send" /\ out' = out
    ELSE user' = user /\ pc' = "done" /\ out' = r

\* self.user() inside time_entries: User(data), bound to `user`.
LookupUser ==
    /\ pc = "decode"
    /\ NeedsLookup(op, user)
    /\ BindUser(ConstructUser(reqret.val))
    /\ UNCHANGED <<op, sent, resp, reqret, acc>>
    /\ UNCHANGED <<durVars, decVars>>

\* ClockifyClient.user: return User(data).
ReturnUser ==
    /\ pc = "decode"
    /\ op.name = "user"
    /\ out' = ConstructUser(reqret.val)
    /\ pc' = "done"
    /\ UNCHANGED <<op, sent, resp, reqret, user, acc>>
    /\ UNCHANGED <<durVars, decVars>>

\* The comprehension given what C(e) returned or raised.
CollectOrRaise(r) ==
    IF r.ok THEN acc' = Collect(acc, r.val) /\ pc' = pc /\ out' = out
    ELSE acc' = acc /\ pc' = "done" /\ out' = r

\* One turn of the comprehension [C(e) for e in data].
DecodeElement ==
    /\ pc = "decode"
    /\ op.name \in ListOps
    /\ ~NeedsLookup(op, user)
    /\ Len(acc) < Len(Elements(reqret.val))
    /\ CollectOrRaise(ConstructElement(ElementClass(op.name), reqret.val,
                                       Len(acc) + 1))
    /\ UNCHANGED <<op, sent, resp, reqret, user>>
    /\ UNCHANGED <<durVars, decVars>>

\* The comprehension is exhausted: the operation returns the list.
ReturnList ==
    /\ pc = "decode"
    /\ op.name \in ListOps
    /\ ~NeedsLookup(op, user)
    /\ Len(acc) = Len(Elements(reqret.val))
    /\ out' = Ok(acc)
    /\ pc' = "done"
    /\ UNCHANGED <<op, sent, resp, reqret, user, acc>>
    /\ UNCHANGED <<durVars, decVars>>

(***************************************************************************)
(* The specifications.                                                     *)
(***************************************************************************)
\* The client: a caller invoking operations one after the other.
Init == InitClient /\ DurIdle /\ DecIdle

Next ==
    \/ CallWorkspaces
    \/ CallUser
    \/ CallTimeEntries
    \/ CallClients
    \/ CallTags
    \/ CallProjects
    \/ CallTasks
    \/ Send
    \/ Respond
    \/ Classify
    \/ LookupUser
    \/ ReturnUser
    \/ DecodeElement
    \/ ReturnList

Spec == Init /\ [][Next]_vars

\* The duration parser applied to one string.
InitDurationSpec == InitDuration /\ ClientIdle /\ DecIdle
NextDuration == ParseDuration
SpecDuration == InitDurationSpec /\ [][NextDuration]_vars

\* One decoder or constructor applied to one JSON value.
InitDecodeSpec == InitDecode /\ ClientIdle /\ DurIdle
NextDecode ==
    \/ DecodeMembershipStatus
    \/ DecodeUserStatus
    \/ DecodeEstimateType
    \/ DecodeTaskStatus
    \/ NewHourlyRate
    \/ NewTag
    \/ NewClient
    \/ NewMembership
    \/ NewWorkspace
    \/ NewEstimate
    \/ NewTask
    \/ NewTimeEntry
    \/ NewProject
    \/ NewUser
SpecDecode == InitDecodeSpec /\ [][NextDecode]_vars

(***************************************************************************)
(* The claims.                                                             *)
(***************************************************************************)
\* The URL of the request the last _req call issued.
LastUrl == sent[Len(sent)]

\* C1: _req classifies a response by status first and body second: 401
\* raises UnauthorizedRequest, 403 ForbiddenRequest, 404 NotFoundException
\* carrying the URL, whatever the body; any other status returns the body's
\* JSON value unchanged when the body parses, and raises
\* ResponseNotJsonException carrying the URL and the raw body when not.
C1_StatusThenBody ==
    reqret # Pending =>
        CASE resp.status = 401 -> reqret = Raise("UnauthorizedRequest", "")
          [] resp.status = 403 -> reqret = Raise("ForbiddenRequest", "")
          [] resp.status = 404 -> reqret = Raise("NotFoundException", LastUrl)
          [] OTHER ->
                IF resp.body.parses THEN reqret = Ok(resp.body.value)
                ELSE reqret = Raise("ResponseNotJsonException",
                                    "Could not decode JSON\n " \o LastUrl
                                        \o " = b'" \o resp.body.raw \o "'")

\* C1 witness: a 500 response whose body is JSON was returned as data, and
\* it is the request for the tags of workspace w1.
C1_Witness ==
    /\ reqret # Pending
    /\ resp.status = 500
    /\ resp.body.parses
    /\ reqret = Ok(resp.body.value)
    /\ LastUrl = "https://api.clockify.me/api/v1/workspaces/w1/tags"

\* Whether the invocation is time_entries called without a user.
WithoutUser == op.name = "time_entries" /\ op.user = Null

\* C2 as stated: every operation that has ended issued exactly one request.
C2_ExactlyOneRequest == pc = "done" => Len(sent) = 1

\* C2 amended: an operation that has ended issued exactly one request,
\* except time_entries called without a user, which issued the user lookup
\* and, when the lookup succeeded, the time-entries request after it.
C2_OneRequestUnlessLookup ==
    pc = "done" =>
        IF WithoutUser /\ user # Null THEN Len(sent) = 2 ELSE Len(sent) = 1

\* C2 witness: time_entries without a user has ended after two requests.
C2_Witness == pc = "done" /\ WithoutUser /\ Len(sent) = 2

\* C3: each enum decoder returns the variant named by a documented token of
\* its enum and raises CannotDecodeException for every other string.
C3_EnumDecoders ==
    (dec_kind \in Enums /\ dec_out # Pending) =>
        IF dec_in \in DocumentedTokens[dec_kind]
        THEN dec_out = Ok(dec_kind \o "." \o dec_in)
        ELSE dec_out = Raise("CannotDecodeException", dec_in)

\* C3 witness: a token that differs from a documented one only in case was
\* refused by TaskStatus.from_json.
C3_Witness ==
    /\ dec_kind = "TaskStatus"
    /\ dec_in = "active"
    /\ dec_out = Raise("CannotDecodeException", "active")

\* C4: every constructed record holds a variant of the corresponding enum
\* in each enum-typed field (Membership, User, Task, Estimate, and Project
\* through its Estimate and Memberships).
C4_EnumFieldsHoldVariants ==
    (dec_kind \in Classes /\ IsOk(dec_out)) =>
        LET r == dec_out.val
            unrecognized(data) ==
                "type" \in DOMAIN data
                    /\ data.type \notin DocumentedTokens.EstimateType
            members(ms) ==
                \A i \in 1..Len(ms) :
                    ms[i].membership_status \in EnumVariants.MembershipStatus
        IN  /\ dec_kind = "Estimate" => ~unrecognized(dec_in)
            /\ dec_kind = "Membership" =>
                  r.membership_status \in EnumVariants.MembershipStatus
            /\ dec_kind = "User" =>
                  r.status \in EnumVariants.UserStatus /\ members(r.memberships)
            /\ dec_kind = "Task" => r.status \in EnumVariants.TaskStatus
            /\ dec_kind = "Workspace" => members(r.memberships)
            /\ dec_kind = "Estimate" => r.of_type \in EnumVariants.EstimateType
            /\ dec_kind = "Project" =>
                  /\ r.estimate.of_type \in EnumVariants.EstimateType
                  /\ members(r.memberships)

\* Seconds of a component of a generated duration string.
ComponentValue(n) == IF n = Omitted THEN 0 ELSE n

\* C5: a well-formed duration string PT<h>H<m>M<s>S, any of its components
\* omitted, parses to h hours + m minutes + s seconds, an omitted component
\* counting as zero.
C5_WellFormedDuration ==
    (dur_src.wf /\ dur_out # Pending) =>
        dur_out = Ok([seconds |-> 3600 * ComponentValue(dur_src.h)
                                    + 60 * ComponentValue(dur_src.m)
                                    + ComponentValue(dur_src.s)])

\* C5 witness: PT1H30M15S was parsed to 5415 seconds.
C5_Witness ==
    /\ dur_in = <<"P", "T", "1", "H", "3", "0", "M", "1", "5", "S">>
    /\ dur_out = Ok([seconds |-> 5415])

\* C6: the parser returns a duration only for strings that conform to the
\* duration grammar; every other string fails with an error.
C6_OnlyGrammarParses == IsOk(dur_out) => ConformsToGrammar(dur_in)

\* C7: a time entry with a valid start has end and duration absent when
\* timeInterval.end is null; when it is a valid timestamp the entry has
\* that end and duration = end - start (zero and negative included); the
\* duration is present exactly when the end is.
C7_EndAndDuration ==
    (dec_kind = "TimeEntry" /\ dec_out # Pending) =>
        /\ \A a \in TimeTable :
              ( /\ "timeInterval" \in DOMAIN dec_in
                /\ dec_in.timeInterval # Null
                /\ DOMAIN dec_in.timeInterval = {"start", "end"}
                /\ dec_in.timeInterval.start = a.json ) =>
                    /\ dec_in.timeInterval.end = Null =>
                          /\ IsOk(dec_out)
                          /\ dec_out.val.start = a.dt
                          /\ dec_out.val.end = Null
                          /\ dec_out.val.duration = Null
                    /\ \A b \in TimeTable :
                          dec_in.timeInterval.end = b.json =>
                              /\ IsOk(dec_out)
                              /\ dec_out.val.start = a.dt
                              /\ dec_out.val.end = b.dt
                              /\ dec_out.val.duration =
                                     [seconds |-> b.epoch - a.epoch]
        /\ IsOk(dec_out) =>
              (dec_out.val.duration = Null <=> dec_out.val.end = Null)

\* C7 witness: an entry whose end precedes its start by a second was
\* constructed with a duration of -1 second.
C7_Witness ==
    /\ dec_kind = "TimeEntry"
    /\ IsOk(dec_out)
    /\ dec_out.val.end # Null
    /\ dec_out.val.duration = [seconds |-> 0 - 1]

\* C8: whenever construction of a record succeeds, every field its class
\* declares has been assigned.
C8_FullyFormed ==
    (dec_kind \in Classes /\ IsOk(dec_out)) =>
        DOMAIN dec_out.val = DeclaredFields[dec_kind]

\* The first element of the payload whose decoding fails, 0 when none does.
FirstFailure(cls, value) ==
    LET bad == {i \in 1..Len(Elements(value)) :
                   ~ConstructElement(cls, value, i).ok}
    IN  IF bad = {} THEN 0 ELSE CHOOSE i \in bad : \A j \in bad : i <= j

UserUrl == "https://api.clockify.me/api/v1/user"

\* C9, in every state: a response classified as an error, or an element
\* that fails to decode, ends the operation with that error and no list of
\* records; time_entries without a user requests the user first, and the
\* time-entries endpoint only after the lookup succeeded.
C9_State ==
    /\ IsErr(reqret) => (pc = "done" /\ out = reqret)
    /\ IsErr(out) => (pc = "done" /\ DOMAIN out = {"ok", "exc", "arg"})
    /\ (pc = "done" /\ IsOk(reqret)) =>
          IF NeedsLookup(op, user) \/ op.name = "user"
          THEN out = ConstructUser(reqret.val)
          ELSE LET cls == ElementClass(op.name)
                   i == FirstFailure(cls, reqret.val)
               IN  IF i = 0 THEN IsOk(out)
                   ELSE out = ConstructElement(cls, reqret.val, i)
    /\ (pc # "ready" /\ WithoutUser) =>
          /\ Len(sent) <= 2
          /\ Len(sent) >= 1 => sent[1] = UserUrl
          /\ Len(sent) = 2 =>
                /\ user # Null
                /\ sent[2] = BASE_URL \o Endpoint(op, user)
          /\ (pc = "done" /\ user = Null) => (IsErr(out) /\ sent = <<UserUrl>>)

\* C9, in every step: once the operation has ended with an error, no
\* request is added to the ones it issued (the next invocation starts anew).
C9_Step == IsErr(out) => (sent' = sent \/ sent' = <<>>)

\* C9: errors are surfaced and never retried.
C9_ErrorsSurfaceNoRetry == []C9_State /\ [][C9_Step]_vars

\* C9 witness: time_entries without a user ended with the error of the
\* failed lookup, having requested the user endpoint and nothing else.
C9_Witness ==
    /\ pc = "done"
    /\ WithoutUser
    /\ IsErr(out)
    /\ sent = <<UserUrl>>

\* C10: a list operation that succeeds returns one record per element of
\* the response array, in the response's order, the i-th record being the
\* decoding of the i-th element; a Tag has the element's id, name and
\* workspaceId as uid, name and workspace_id.
C10_OneRecordPerElement ==
    ( /\ pc = "done"
      /\ IsOk(out)
      /\ op.name \in ListOps
      /\ resp.body.parses
      /\ resp.body.value.kind = "array" ) =>
        LET items == resp.body.value.items
            cls == ElementClass(op.name)
        IN  /\ Len(out.val) = Len(items)
            /\ \A i \in 1..Len(items) :
                  /\ out.val[i] = Construct(cls, items[i]).val
                  /\ op.name = "tags" =>
                        /\ out.val[i].uid = items[i].id
                        /\ out.val[i].name = items[i].name
                        /\ out.val[i].workspace_id = items[i].workspaceId

\* C10 witness: tags returned two Tag records in the order of the response.
C10_Witness ==
    /\ pc = "done"
    /\ IsOk(out)
    /\ op.name = "tags"
    /\ Len(out.val) = 2
    /\ out.val[1] = [uid |-> "a1", name |-> "Work", workspace_id |-> "w1"]
    /\ out.val[2] = [uid |-> "b2", name |-> "Home", workspace_id |-> "w1"]

====
